---- MODULE Spec2Model ----
(***************************************************************************)
(* Order pricing / allocation engine with transactional inventory commit   *)
(* (OrderService.createOrder, Warehouse.updateStock,                       *)
(* WarehouseService.updateWarehouseStock) over a row-locking SQL store at  *)
(* READ COMMITTED.                                                         *)
(*                                                                         *)
(* Prices (base price, discount, total price) are kept in cents and        *)
(* shipping costs in units of 1e-5 dollar, so that every Decimal product of *)
(* the service (150 * q * rate, 0.01 * q * 0.365 * km) is an exact integer. *)
(* A distance is a double: whole km plus a fraction in units of 1e-12 km;  *)
(* the part of a shipping cost that comes from the fraction is kept in a   *)
(* second limb, in units of 1e-17 dollar.                                  *)
(***************************************************************************)
EXTENDS Integers, Sequences, FiniteSets, TLC

\* ---- bounds of the model ------------------------------------------------
NumReq == 2
MaxStock == 2
MaxQty == 2
MaxAdmin == 1
MaxFaults == 1

\* ---- program constants ----------------------------------------------------
DEVICE_PRICE == 150
SHIPPING_RATE_E2 == 1
DEVICE_WEIGHT_E3 == 365
SHIPPING_CAP_PCT == 15
\* significant decimal digits a FLOAT (float8) column value carries at most
FLOAT8_DIGITS == 17
\* decimal digits of the low limb of a shipping cost (1e-5 / 1e-17)
LO_DIGITS == 12

Req == 1..NumReq
WarehouseIds == {1, 2}
Destinations == {1, 2}
\* destinations of verify requests
VerifyDestinations == {1, 2, 3}
Quantities == 1..MaxQty
None == 0
NoOrder == [status |-> "none"]
NoQuote == [status |-> "none"]

\* (mutant) the whole remaining quantity is taken from the warehouse
Min_Second(a, b) == b

Min(a, b) == IF a < b THEN a ELSE b
Abs(a) == IF a < 0 THEN 0 - a ELSE a

\* Warehouses and destinations lie on one great circle; positions in km.
\* Destination 3 is at the same distance from both warehouses.
WarehousePos(w) == 7000 * (w - 1)
DestinationPos(d) == IF d = 1 THEN 0 ELSE IF d = 2 THEN 4000 ELSE 3500
\* ST_Distance(location, point) / 1000: the whole kilometres ...
Distance(d, w) == Abs(DestinationPos(d) - WarehousePos(w))
\* ... and the fraction, in 1e-12 km (destination 2 is 4000.000000000001 km
\* from warehouse 1)
DistanceLo(d, w) == IF d = 1 THEN 0 ELSE 1
\* (mutant) ORDER BY distance DESC
DistanceLeq_Descending(d, w1, w2) ==
  \/ Distance(d, w1) > Distance(d, w2)
  \/ Distance(d, w1) = Distance(d, w2) /\ DistanceLo(d, w1) >= DistanceLo(d, w2)

\* distance of w1 <= distance of w2
DistanceLeq(d, w1, w2) ==
  \/ Distance(d, w1) < Distance(d, w2)
  \/ Distance(d, w1) = Distance(d, w2) /\ DistanceLo(d, w1) <= DistanceLo(d, w2)

\* ---- pricing ------------------------------------------------------------
\* (mutant) every tier starts one unit late
calculateDiscount_Exclusive(quantity) ==
  IF quantity > 250 THEN 20
  ELSE IF quantity > 100 THEN 15
  ELSE IF quantity > 50 THEN 10
  ELSE IF quantity > 25 THEN 5
  ELSE 0

\* discount rate in percent
calculateDiscount(quantity) ==
  IF quantity >= 250 THEN 20
  ELSE IF quantity >= 100 THEN 15
  ELSE IF quantity >= 50 THEN 10
  ELSE IF quantity >= 25 THEN 5
  ELSE 0

\* shipping cost of one allocation line, in 1e-5 dollar
LineShippingCost(quantityFromWarehouse, distance) ==
  SHIPPING_RATE_E2 * quantityFromWarehouse * DEVICE_WEIGHT_E3 * distance

RECURSIVE SumShipping(_, _)
SumShipping(allocations, i) ==
  IF i > Len(allocations) THEN 0
  ELSE allocations[i].shippingCost + SumShipping(allocations, i + 1)

RECURSIVE SumShippingLo(_, _)
SumShippingLo(allocations, i) ==
  IF i > Len(allocations) THEN 0
  ELSE allocations[i].shippingCostLo + SumShippingLo(allocations, i + 1)

\* (mutant) the total price includes the shipping cost
calculateOrderCosts_PlusShipping(quantity, allocations) ==
  LET basePrice == DEVICE_PRICE * quantity * 100
      discount == (basePrice * calculateDiscount(quantity)) \div 100
      shippingCost == SumShipping(allocations, 1)
  IN [basePrice |-> basePrice,
      discount |-> discount,
      totalPrice |-> basePrice - discount + shippingCost \div 1000,
      shippingCost |-> shippingCost,
      shippingCostLo |-> SumShippingLo(allocations, 1)]

\* prices in cents, shipping cost in 1e-5 dollar (and its low limb)
calculateOrderCosts(quantity, allocations) ==
  LET basePrice == DEVICE_PRICE * quantity * 100
      discount == (basePrice * calculateDiscount(quantity)) \div 100
  IN [basePrice |-> basePrice,
      discount |-> discount,
      totalPrice |-> basePrice - discount,
      shippingCost |-> SumShipping(allocations, 1),
      shippingCostLo |-> SumShippingLo(allocations, 1)]

\* (mutant) greater than or equal
gt_OrEqual(hi, lo, other) == hi >= other

\* Decimal.gt of the two-limb value (hi, lo) and a value in units of hi
gt(hi, lo, other) == hi > other \/ (hi = other /\ lo > 0)

\* (mutant) the cap is not enforced
ShippingCostExceeds_Never(totalPrice, shippingCost, shippingCostLo) == FALSE

\* TRUE iff validateShippingCost throws: shippingCost.gt(totalPrice.mul(0.15))
ShippingCostExceeds(totalPrice, shippingCost, shippingCostLo) ==
  gt(shippingCost, shippingCostLo, totalPrice * SHIPPING_CAP_PCT * 10)

\* ---- FLOAT columns ---------------------------------------------------------
RECURSIVE DecimalDigits(_)
DecimalDigits(n) == IF n < 10 THEN 1 ELSE 1 + DecimalDigits(n \div 10)

RECURSIVE Pow10(_)
Pow10(k) == IF k <= 0 THEN 1 ELSE 10 * Pow10(k - 1)

\* The value hi * 1e-5 + lo * 1e-17 written to a FLOAT (double precision)
\* column: the column keeps FLOAT8_DIGITS significant digits.  The high limb
\* (at most 9 digits) is kept whole; this is the low limb that is kept.
ToFloat8Lo(hi, lo) ==
  LET dropped == DecimalDigits(hi) + LO_DIGITS - FLOAT8_DIGITS
      unit == Pow10(dropped)
  IN IF hi = 0 \/ dropped <= 0 THEN lo
     ELSE ((lo + unit \div 2) \div unit) * unit

\* ---- allocation ---------------------------------------------------------
\* the loop of findOptimalWarehouses over the rows returned by the query
RECURSIVE AllocateFrom(_, _, _)
AllocateFrom(warehousesWithDistance, i, remainingQuantity) ==
  IF i > Len(warehousesWithDistance) \/ remainingQuantity <= 0
  THEN [allocations |-> <<>>, remainingQuantity |-> remainingQuantity]
  ELSE LET warehouseData == warehousesWithDistance[i]
           quantityFromWarehouse == Min(warehouseData.stock, remainingQuantity)
           line == [warehouseId |-> warehouseData.id,
                    quantity |-> quantityFromWarehouse,
                    distance |-> warehouseData.distance,
                    distanceLo |-> warehouseData.distanceLo,
                    shippingCost |->
                      LineShippingCost(quantityFromWarehouse, warehouseData.distance),
                    shippingCostLo |->
                      LineShippingCost(quantityFromWarehouse, warehouseData.distanceLo)]
       IN IF quantityFromWarehouse > 0
          THEN LET rest == AllocateFrom(warehousesWithDistance, i + 1,
                                        remainingQuantity - quantityFromWarehouse)
               IN [allocations |-> <<line>> \o rest.allocations,
                   remainingQuantity |-> rest.remainingQuantity]
          ELSE AllocateFrom(warehousesWithDistance, i + 1, remainingQuantity)

\* (mutant) the loop runs over the rows from the farthest to the nearest
findOptimalWarehouses_FarthestFirst(quantity, warehousesWithDistance) ==
  AllocateFrom([i \in 1..Len(warehousesWithDistance) |->
                  warehousesWithDistance[Len(warehousesWithDistance) + 1 - i]],
               1, quantity)

findOptimalWarehouses(quantity, warehousesWithDistance) ==
  AllocateFrom(warehousesWithDistance, 1, quantity)

\* (mutant) the query without its ORDER BY
SortedCandidates_Unordered(d, st) ==
  LET inStock == {w \in WarehouseIds : st[w] > 0}
      n == Cardinality(inStock)
  IN {s \in [1..n -> inStock] : \A i, j \in 1..n : i # j => s[i] # s[j]}

\* The ids of the rows "WHERE stock > 0 ORDER BY distance ASC" can return for
\* a snapshot st: every ordering of the in-stock warehouses that is
\* non-decreasing in distance (rows at equal distance come in any order).
SortedCandidates(d, st) ==
  LET inStock == {w \in WarehouseIds : st[w] > 0}
      n == Cardinality(inStock)
  IN {s \in [1..n -> inStock] :
        /\ \A i, j \in 1..n : i # j => s[i] # s[j]
        /\ \A i, j \in 1..n : i < j => DistanceLeq(d, s[i], s[j])}

VARIABLES
  store,      \* "blocking": a statement outside the transaction waits for the row lock
              \* "bypass":   the store applies it without waiting
  initStock,  \* history: warehouses.stock when the service starts
  stock,      \* committed warehouses.stock
  lockOwner,  \* row lock holder of each warehouse row, or None
  orders,     \* committed orders rows, by order id (= id of the creating request)
  items,      \* committed order_items rows
  pc, qty, dest,
  cand,       \* ids the FOR UPDATE query is going to lock, in order
  rows,       \* rows the query has locked and returned so far
  alloc,      \* verification.items
  idx,        \* position in cand (locking) or in alloc (item loop)
  inst,       \* stock field of the Warehouse instance held by the loop body
  txOrder, txItems,   \* rows inserted by the open transaction, not yet visible
  err,
  written,    \* history: units each request's saves have taken out of committed stock
  adminPc, adminW, adminV, adminRead, adminCount,
  faults,
  shortfall,  \* units named by the "Cannot fulfill order" error of each request
  quote,      \* what the last verify request returned
  quoteStock, \* history: warehouses.stock read by that verify request
  pricing,    \* verifyOrder applied to given rows: the rows and what it returned
  statusFrom, \* history: the status each order had before its last status update
  notFound,   \* history: the last request for an order that was answered "not found"
  exists,     \* whether the warehouses row of each warehouse id exists
  overwrite   \* history: the warehouse and value of the last finished stock overwrite

vars == <<store, initStock, stock, lockOwner, orders, items, pc, qty, dest, cand, rows, alloc,
          idx, inst, txOrder, txItems, err, written,
          adminPc, adminW, adminV, adminRead, adminCount, faults,
          shortfall, quote, quoteStock, pricing, statusFrom, notFound, exists,
          overwrite>>

verifyVars == <<quote, quoteStock, pricing>>

adminVars == <<adminPc, adminW, adminV, adminRead, adminCount, overwrite>>
constVars == <<store, initStock>>
orderVars == <<statusFrom, notFound>>

Init ==
  /\ store \in {"blocking", "bypass"}
  /\ stock \in [WarehouseIds -> 0..MaxStock]
  /\ initStock = stock
  /\ lockOwner = [w \in WarehouseIds |-> None]
  /\ orders = [r \in Req |-> NoOrder]
  /\ items = {}
  /\ pc = [r \in Req |-> "idle"]
  /\ qty = [r \in Req |-> 0]
  /\ dest = [r \in Req |-> 1]
  /\ cand = [r \in Req |-> <<>>]
  /\ rows = [r \in Req |-> <<>>]
  /\ alloc = [r \in Req |-> <<>>]
  /\ idx = [r \in Req |-> 1]
  /\ inst = [r \in Req |-> 0]
  /\ txOrder = [r \in Req |-> NoOrder]
  /\ txItems = [r \in Req |-> <<>>]
  /\ err = [r \in Req |-> "none"]
  /\ written = [r \in Req |-> [w \in WarehouseIds |-> 0]]
  /\ adminPc = "idle"
  /\ adminW = 1
  /\ adminV = 0
  /\ adminRead = 0
  /\ adminCount = 0
  /\ faults = 0
  /\ shortfall = [r \in Req |-> 0]
  /\ quote = NoQuote
  /\ quoteStock = stock
  /\ pricing = NoQuote
  /\ statusFrom = [r \in Req |-> "none"]
  /\ notFound = [op |-> "none"]
  /\ exists = [w \in WarehouseIds |-> TRUE]
  /\ overwrite = [w |-> 0]

\* ---- the store ------------------------------------------------------------
\* (mutant) row locks that exclude nobody
CanLock_NotExclusive(r, w) == TRUE

\* SELECT ... FOR UPDATE of transaction r gets the row lock of w without waiting
CanLock(r, w) == lockOwner[w] \in {None, r}

\* A statement issued outside any transaction (Model.save() without the
\* transaction option runs on another pooled connection in autocommit) can be
\* applied to row w now.
AutocommitCanWrite(w) == store = "bypass" \/ lockOwner[w] = None

ReleaseLocks(r) == [w \in WarehouseIds |-> IF lockOwner[w] = r THEN None ELSE lockOwner[w]]

\* the request r's open transaction is waiting for the row lock of this owner
WaitsFor(r) ==
  IF pc[r] = "locking" /\ idx[r] <= Len(cand[r])
  THEN IF CanLock(r, cand[r][idx[r]]) THEN None ELSE lockOwner[cand[r][idx[r]]]
  ELSE None

RECURSIVE WaitChainReaches(_, _, _)
WaitChainReaches(from, target, n) ==
  IF n = 0 \/ from \notin Req THEN FALSE
  ELSE LET o == WaitsFor(from)
       IN o = target \/ WaitChainReaches(o, target, n - 1)

InDeadlock(r) == WaitsFor(r) # None /\ WaitChainReaches(WaitsFor(r), r, NumReq)

\* ---- createOrder ----------------------------------------------------------
\* (mutant) the rows inserted by the failed attempt stay
RollbackTxn_KeepsRows(r, e) ==
  /\ pc' = [pc EXCEPT ![r] = "failed"]
  /\ err' = [err EXCEPT ![r] = e]
  /\ txOrder' = [txOrder EXCEPT ![r] = NoOrder]
  /\ txItems' = [txItems EXCEPT ![r] = <<>>]
  /\ lockOwner' = ReleaseLocks(r)
  /\ orders' = [orders EXCEPT ![r] = txOrder[r]]
  /\ items' = items \cup {txItems[r][i] : i \in 1..Len(txItems[r])}
  /\ cand' = [cand EXCEPT ![r] = <<>>]
  /\ rows' = [rows EXCEPT ![r] = <<>>]
  /\ idx' = [idx EXCEPT ![r] = 1]
  /\ inst' = [inst EXCEPT ![r] = 0]

\* catch block of createOrder: transaction.rollback(); throw
RollbackTxn(r, e) ==
  /\ pc' = [pc EXCEPT ![r] = "failed"]
  /\ err' = [err EXCEPT ![r] = e]
  /\ txOrder' = [txOrder EXCEPT ![r] = NoOrder]
  /\ txItems' = [txItems EXCEPT ![r] = <<>>]
  /\ lockOwner' = ReleaseLocks(r)
  /\ orders' = orders
  /\ items' = items
  /\ cand' = [cand EXCEPT ![r] = <<>>]
  /\ rows' = [rows EXCEPT ![r] = <<>>]
  /\ idx' = [idx EXCEPT ![r] = 1]
  /\ inst' = [inst EXCEPT ![r] = 0]

\* sequelize.transaction(...) resolves: COMMIT
CommitTxn(r) ==
  /\ pc' = [pc EXCEPT ![r] = "committed"]
  /\ err' = err
  /\ orders' = [orders EXCEPT ![r] = txOrder[r]]
  /\ items' = items \cup {txItems[r][i] : i \in 1..Len(txItems[r])}
  /\ txOrder' = [txOrder EXCEPT ![r] = NoOrder]
  /\ txItems' = [txItems EXCEPT ![r] = <<>>]
  /\ lockOwner' = ReleaseLocks(r)
  /\ cand' = [cand EXCEPT ![r] = <<>>]
  /\ rows' = [rows EXCEPT ![r] = <<>>]
  /\ idx' = [idx EXCEPT ![r] = 1]
  /\ inst' = [inst EXCEPT ![r] = 0]

\* createOrder is called; the transaction begins and verifyOrder issues
\* SELECT ... WHERE stock > 0 ORDER BY distance ASC FOR UPDATE.
\* (Requests are interchangeable, so they are started in id order.)
Begin(r, q, d) ==
  /\ pc[r] = "idle"
  /\ \A r2 \in Req : r2 < r => pc[r2] # "idle"
  /\ \E c \in SortedCandidates(d, stock) : cand' = [cand EXCEPT ![r] = c]
  /\ pc' = [pc EXCEPT ![r] = "locking"]
  /\ qty' = [qty EXCEPT ![r] = q]
  /\ dest' = [dest EXCEPT ![r] = d]
  /\ idx' = [idx EXCEPT ![r] = 1]
  /\ UNCHANGED <<constVars, exists, orderVars, verifyVars, shortfall, stock, lockOwner, orders, items, rows, alloc, inst, txOrder,
                 txItems, err, written, adminVars, faults>>

\* The query locks its next row, waiting while another transaction holds it,
\* and re-reads the row's committed version: a row whose stock is no longer
\* positive is not returned.
LockRow(r) ==
  /\ pc[r] = "locking"
  /\ idx[r] <= Len(cand[r])
  /\ LET w == cand[r][idx[r]]
     IN /\ CanLock(r, w)
        /\ lockOwner' = [lockOwner EXCEPT ![w] = r]
        /\ rows' = [rows EXCEPT ![r] =
                      IF stock[w] > 0
                      THEN Append(@, [id |-> w, stock |-> stock[w],
                                      distance |-> Distance(dest[r], w),
                                      distanceLo |-> DistanceLo(dest[r], w)])
                      ELSE @]
  /\ idx' = [idx EXCEPT ![r] = @ + 1]
  /\ UNCHANGED <<constVars, exists, orderVars, verifyVars, shortfall, stock, orders, items, pc, qty, dest, cand, alloc, inst, txOrder,
                 txItems, err, written, adminVars, faults>>

\* (mutant) a partial allocation passes
CannotFulfill_Never(remainingQuantity) == FALSE

\* "Check if all requested quantity could be allocated"
CannotFulfill(remainingQuantity) == remainingQuantity > 0

\* (mutant) the message names the requested quantity
InsufficientStockUnits_Requested(quantity, remainingQuantity) == quantity

\* the units named by "Cannot fulfill order: N units couldn't be allocated"
InsufficientStockUnits(quantity, remainingQuantity) == remainingQuantity

\* outcome of the rest of verifyOrder: allocation, costs, shipping cap
VerifyOutcome(quantity, warehousesWithDistance) ==
  LET res == findOptimalWarehouses(quantity, warehousesWithDistance)
      costs == calculateOrderCosts(quantity, res.allocations)
  IN IF CannotFulfill(res.remainingQuantity) THEN "InsufficientStock"
     ELSE IF ShippingCostExceeds(costs.totalPrice, costs.shippingCost,
                                 costs.shippingCostLo)
     THEN "ShippingCostExceeded"
     ELSE "ok"

\* (mutant) orders are created in processing
InitialStatus_Processing == "PROCESSING"

\* Order.create({ ..., status: OrderStatus.PENDING }, { transaction })
InitialStatus == "PENDING"

\* orderNumber: defaultValue () => `ORD-${Date.now().toString().slice(-6)}`:
\* the last six digits of the millisecond clock
SUFFIX_DIGITS == 6
OrderNumber(now) == now % Pow10(SUFFIX_DIGITS)

\* (mutant) the column has no unique index
NumberTaken_Never(n) == FALSE

\* orderNumber: unique: true -- a committed order row holds the number
NumberTaken(n) == \E r2 \in Req : orders[r2] # NoOrder /\ orders[r2].orderNumber = n

\* a row inserted by another transaction that is still open holds the number:
\* the unique index makes the INSERT wait for that transaction
NumberInFlight(r, n) ==
  \E r2 \in Req \ {r} : txOrder[r2] # NoOrder /\ txOrder[r2].orderNumber = n

\* The query has returned: verifyOrder computes the allocation and validates
\* it, then createOrder inserts the Order row (Order.create(..., { transaction }))
\* at the millisecond now.
VerifyAndInsertOrderAt(r, now) ==
  /\ pc[r] = "locking"
  /\ idx[r] > Len(cand[r])
  /\ LET outcome == VerifyOutcome(qty[r], rows[r])
         allocations == findOptimalWarehouses(qty[r], rows[r]).allocations
         costs == calculateOrderCosts(qty[r], allocations)
     IN IF outcome # "ok"
        THEN /\ RollbackTxn(r, outcome)
             /\ alloc' = alloc
             /\ shortfall' = [shortfall EXCEPT ![r] =
                   IF outcome = "InsufficientStock"
                   THEN InsufficientStockUnits(qty[r],
                          findOptimalWarehouses(qty[r], rows[r]).remainingQuantity)
                   ELSE @]
        ELSE IF NumberTaken(OrderNumber(now))
        THEN /\ RollbackTxn(r, "UniqueViolation")
             /\ alloc' = alloc
             /\ shortfall' = shortfall
        ELSE /\ ~NumberInFlight(r, OrderNumber(now))
             /\ alloc' = [alloc EXCEPT ![r] = allocations]
             /\ shortfall' = shortfall
             /\ idx' = [idx EXCEPT ![r] = 1]
             /\ cand' = [cand EXCEPT ![r] = <<>>]
             /\ rows' = [rows EXCEPT ![r] = <<>>]
             /\ inst' = inst
             /\ txOrder' = [txOrder EXCEPT ![r] =
                              [status |-> InitialStatus, quantity |-> qty[r],
                               orderNumber |-> OrderNumber(now),
                               totalPrice |-> costs.totalPrice,
                               discount |-> costs.discount,
                               shippingCost |-> costs.shippingCost,
                               shippingCostLo |->
                                 ToFloat8Lo(costs.shippingCost, costs.shippingCostLo)]]
             /\ pc' = [pc EXCEPT ![r] = "item"]
             /\ UNCHANGED <<err, txItems, lockOwner, orders, items>>
  /\ UNCHANGED <<constVars, exists, orderVars, verifyVars, stock, qty, dest, written, adminVars, faults>>

\* Order.create of request r runs in millisecond r of the run: the creates of
\* distinct requests fall into distinct milliseconds
VerifyAndInsertOrder(r) == VerifyAndInsertOrderAt(r, r)

\* Order.create of request r runs 1000 seconds (10^6 ms) after the
\* Order.create of the committed order r2: the clock shows the same last six
\* digits again
InsertOrderNumberRepeats(r, r2) ==
  /\ r2 # r
  /\ orders[r2] # NoOrder
  /\ pc[r] = "locking" /\ idx[r] > Len(cand[r])
  /\ VerifyOutcome(qty[r], rows[r]) = "ok"
  /\ VerifyAndInsertOrderAt(r, orders[r2].orderNumber + Pow10(SUFFIX_DIGITS))

\* Order.create rejects (the store fails the INSERT)
InsertOrderFails(r) ==
  /\ pc[r] = "locking"
  /\ idx[r] > Len(cand[r])
  /\ VerifyOutcome(qty[r], rows[r]) = "ok"
  /\ faults < MaxFaults
  /\ faults' = faults + 1
  /\ RollbackTxn(r, "InsertFailed")
  /\ UNCHANGED <<constVars, exists, orderVars, verifyVars, shortfall, stock, qty, dest, alloc, written, adminVars>>

\* OrderItem.create rejects
InsertItemFails(r) ==
  /\ pc[r] = "item"
  /\ faults < MaxFaults
  /\ faults' = faults + 1
  /\ RollbackTxn(r, "InsertFailed")
  /\ UNCHANGED <<constVars, exists, orderVars, verifyVars, shortfall, stock, qty, dest, alloc, written, adminVars>>

\* (mutant) the recheck left out
RecheckFails_Never(warehouseStock, quantity) == FALSE

\* "Double-check stock availability after locking"
RecheckFails(warehouseStock, quantity) == warehouseStock < quantity

\* guard of Warehouse.updateStock
UpdateStockThrows(thisStock, quantity) == thisStock < quantity

\* (mutant) the decrement applied twice
DecrementedStock_Twice(thisStock, quantity) == thisStock - quantity - quantity

\* this.stock -= quantity
DecrementedStock(thisStock, quantity) == thisStock - quantity

\* (mutant) a warehouse that is not found is skipped: if (warehouse) { ... }
ItemStep_SkipsMissing(r) ==
  /\ pc[r] = "item"
  /\ LET allocation == alloc[r][idx[r]]
         w == allocation.warehouseId
         item == [orderId |-> r, line |-> idx[r], warehouseId |-> w,
                  quantity |-> allocation.quantity]
     IN /\ CanLock(r, w)
        /\ IF ~exists[w]
           THEN /\ txItems' = [txItems EXCEPT ![r] = Append(@, item)]
                /\ idx' = [idx EXCEPT ![r] = @ + 1]
                /\ pc' = [pc EXCEPT ![r] =
                            IF idx[r] + 1 > Len(alloc[r]) THEN "commit" ELSE "item"]
                /\ UNCHANGED <<err, txOrder, orders, items, cand, rows, inst, lockOwner>>
           ELSE IF RecheckFails(stock[w], allocation.quantity)
           THEN RollbackTxn(r, "StockChanged")
           ELSE IF UpdateStockThrows(stock[w], allocation.quantity)
           THEN RollbackTxn(r, "NotEnoughStock")
           ELSE /\ txItems' = [txItems EXCEPT ![r] = Append(@, item)]
                /\ inst' = [inst EXCEPT ![r] = DecrementedStock(stock[w], allocation.quantity)]
                /\ pc' = [pc EXCEPT ![r] = "save"]
                /\ lockOwner' = [lockOwner EXCEPT ![w] = r]
                /\ UNCHANGED <<err, txOrder, orders, items, cand, rows, idx>>
  /\ UNCHANGED <<constVars, exists, orderVars, verifyVars, shortfall, stock, qty, dest, alloc, written, adminVars, faults>>

\* One pass of the allocation loop up to the save:
\* OrderItem.create(..., { transaction }),
\* Warehouse.findByPk(id, { transaction, lock: UPDATE }) and the throw when
\* it finds no row, the recheck, and the in-memory part of updateStock
\* (this.stock -= quantity)
ItemStep(r) ==
  /\ pc[r] = "item"
  /\ LET allocation == alloc[r][idx[r]]
         w == allocation.warehouseId
         item == [orderId |-> r, line |-> idx[r], warehouseId |-> w,
                  quantity |-> allocation.quantity]
     IN /\ CanLock(r, w)
        /\ IF ~exists[w]
           THEN RollbackTxn(r, "WarehouseNotFound")
           ELSE IF RecheckFails(stock[w], allocation.quantity)
           THEN RollbackTxn(r, "StockChanged")
           ELSE IF UpdateStockThrows(stock[w], allocation.quantity)
           THEN RollbackTxn(r, "NotEnoughStock")
           ELSE /\ txItems' = [txItems EXCEPT ![r] = Append(@, item)]
                /\ inst' = [inst EXCEPT ![r] = DecrementedStock(stock[w], allocation.quantity)]
                /\ pc' = [pc EXCEPT ![r] = "save"]
                /\ lockOwner' = [lockOwner EXCEPT ![w] = r]
                /\ UNCHANGED <<err, txOrder, orders, items, cand, rows, idx>>
  /\ UNCHANGED <<constVars, exists, orderVars, verifyVars, shortfall, stock, qty, dest, alloc, written, adminVars, faults>>

\* await this.save() of updateStock: UPDATE warehouses SET stock = ... issued
\* WITHOUT the transaction (updateStock takes and passes no transaction);
\* the UPDATE of a row that has been deleted meanwhile changes nothing
SaveLands(r) ==
  /\ pc[r] = "save"
  /\ LET allocation == alloc[r][idx[r]]
         w == allocation.warehouseId
     IN /\ AutocommitCanWrite(w)
        /\ stock' = IF exists[w] THEN [stock EXCEPT ![w] = inst[r]] ELSE stock
        /\ written' = IF exists[w]
                      THEN [written EXCEPT ![r][w] = @ + allocation.quantity]
                      ELSE written
  /\ idx' = [idx EXCEPT ![r] = @ + 1]
  /\ pc' = [pc EXCEPT ![r] = IF idx[r] + 1 > Len(alloc[r]) THEN "commit" ELSE "item"]
  /\ UNCHANGED <<constVars, exists, orderVars, verifyVars, shortfall, lockOwner, orders, items, qty, dest, cand, rows, alloc, inst,
                 txOrder, txItems, err, adminVars, faults>>

\* The store gives up a lock wait (lock wait timeout of the store, when it
\* has one): the waiting statement fails and createOrder rolls back.
LockWaitTimeout(r) ==
  /\ \/ /\ pc[r] = "save"
        /\ ~AutocommitCanWrite(alloc[r][idx[r]].warehouseId)
        /\ faults' = faults
     \/ /\ WaitsFor(r) # None
        /\ faults < MaxFaults
        /\ faults' = faults + 1
  /\ RollbackTxn(r, "LockTimeout")
  /\ UNCHANGED <<constVars, exists, orderVars, verifyVars, shortfall, stock, qty, dest, alloc, written, adminVars>>

\* The store detects a cycle of transactions waiting for each other's row
\* locks and fails the statement of one of them.
DeadlockAbort(r) ==
  /\ InDeadlock(r)
  /\ RollbackTxn(r, "Deadlock")
  /\ UNCHANGED <<constVars, exists, orderVars, verifyVars, shortfall, stock, qty, dest, alloc, written, adminVars, faults>>

\* the callback of sequelize.transaction returns
Commit(r) ==
  /\ pc[r] = "commit"
  /\ CommitTxn(r)
  /\ UNCHANGED <<constVars, exists, orderVars, verifyVars, shortfall, stock, qty, dest, alloc, written, adminVars, faults>>

\* ---- WarehouseService.updateWarehouseStock ---------------------------------
\* Warehouse.findByPk(id) (no lock)
AdminRead(w, v) ==
  /\ adminPc = "idle"
  /\ adminCount < MaxAdmin
  /\ adminPc' = "save"
  /\ adminW' = w
  /\ adminV' = v
  /\ adminRead' = stock[w]
  /\ UNCHANGED <<constVars, exists, orderVars, verifyVars, shortfall, stock, lockOwner, orders, items, pc, qty, dest, cand, rows,
                 alloc, idx, inst, txOrder, txItems, err, written, adminCount,
                 overwrite, faults>>

\* warehouse.stock = data.stock; warehouse.save() (an UPDATE only when the
\* attribute changed)
AdminSave ==
  /\ adminPc = "save"
  /\ IF adminV = adminRead
     THEN stock' = stock
     ELSE /\ AutocommitCanWrite(adminW)
          /\ stock' = [stock EXCEPT ![adminW] = adminV]
  /\ adminPc' = "idle"
  /\ adminW' = 1
  /\ adminV' = 0
  /\ adminRead' = 0
  /\ adminCount' = adminCount + 1
  /\ overwrite' = [w |-> adminW, v |-> adminV]
  /\ UNCHANGED <<constVars, exists, orderVars, verifyVars, shortfall, lockOwner, orders, items, pc, qty, dest, cand, rows, alloc, idx,
                 inst, txOrder, txItems, err, written, faults>>

\* ---- WarehouseService.deleteWarehouse ----------------------------------------
\* Warehouse.findByPk(id) finds the row and warehouse.destroy() deletes it in
\* autocommit.  A deleted row is returned by no query: its stock counts as 0.
DeleteWarehouse(w) ==
  /\ exists[w]
  /\ AutocommitCanWrite(w)
  /\ exists' = [exists EXCEPT ![w] = FALSE]
  /\ stock' = [stock EXCEPT ![w] = 0]
  /\ UNCHANGED <<constVars, orderVars, verifyVars, shortfall, lockOwner, orders, items, pc,
                 qty, dest, cand, rows, alloc, idx, inst, txOrder, txItems, err, written,
                 adminVars, faults>>

\* ---- verifyOrder called by the controller (no transaction) -------------------
\* (mutant) the query locks its rows for every caller
lockClause_Always(transaction) == "FOR UPDATE"

\* const lockClause = transaction ? 'FOR UPDATE' : ''
lockClause(transaction) == IF transaction THEN "FOR UPDATE" ELSE ""

\* owner of the row locks taken by a statement of a verify request
Verifier == NumReq + 1

\* the rows the query returns for the ids c, read from the snapshot st
QueryRows(d, c, st) ==
  [i \in 1..Len(c) |-> [id |-> c[i], stock |-> st[c[i]],
                        distance |-> Distance(d, c[i]),
                        distanceLo |-> DistanceLo(d, c[i])]]

\* OrderMapper.toResponseDto: isValid of the response
ResponseIsValid(isDefined, isValid) == IF isDefined THEN isValid ELSE TRUE

\* GET /verify: OrderController.verifyOrder -> OrderService.verifyOrder(orderData)
Verify(q, d) ==
  /\ \E c \in SortedCandidates(d, stock) :
       LET warehousesWithDistance == QueryRows(d, c, stock)
           res == findOptimalWarehouses(q, warehousesWithDistance)
           costs == calculateOrderCosts(q, res.allocations)
           outcome == VerifyOutcome(q, warehousesWithDistance)
           locking == lockClause(FALSE) = "FOR UPDATE"
       IN /\ locking => \A i \in 1..Len(c) : CanLock(Verifier, c[i])
          /\ lockOwner' = IF locking
                          THEN [w \in WarehouseIds |->
                                  IF \E i \in 1..Len(c) : c[i] = w
                                  THEN Verifier ELSE lockOwner[w]]
                          ELSE lockOwner
          /\ quote' = IF outcome # "ok"
                      THEN [status |-> "error", message |-> outcome,
                            quantity |-> q, destination |-> d]
                      ELSE [status |-> "quote", quantity |-> q, destination |-> d,
                            basePrice |-> costs.basePrice,
                            totalPrice |-> costs.totalPrice,
                            discount |-> costs.discount,
                            shippingCost |-> costs.shippingCost,
                            shippingCostLo |-> costs.shippingCostLo,
                            isValid |-> ResponseIsValid(FALSE, TRUE),
                            items |-> res.allocations]
  /\ quoteStock' = stock
  /\ UNCHANGED <<constVars, exists, orderVars, stock, orders, items, pc, qty, dest, cand, rows, alloc, idx,
                 inst, txOrder, txItems, err, written, adminVars, faults, shortfall,
                 pricing>>

\* ---- verifyOrder as a function of the rows its query returned ---------------
\* quantities on both sides of every discount tier, and one (73) whose
\* discounted total has a 15% that a whole number of unit-km costs exactly
PricedQuantities == {1, 24, 25, 49, 50, 73, 99, 100, 249, 250}

\* results of the query, nearest first: one warehouse that covers the order,
\* or one unit at the destination and the rest further away
PricedRows ==
  {<<[id |-> 1, stock |-> 250, distance |-> km, distanceLo |-> 0]>> :
     km \in {0, 3000, 6164, 6165, 7000}}
  \cup {<<[id |-> 1, stock |-> 1, distance |-> 0, distanceLo |-> 0],
           [id |-> 2, stock |-> 250, distance |-> km, distanceLo |-> lo]>> :
          km \in {5624, 5625}, lo \in {0, 1}}

\* verifyOrder from the rows on: findOptimalWarehouses, calculateOrderCosts,
\* validateShippingCost, and the result it returns or the error it throws
Price(q, warehousesWithDistance) ==
  /\ pricing' =
       LET res == findOptimalWarehouses(q, warehousesWithDistance)
           costs == calculateOrderCosts(q, res.allocations)
           outcome == VerifyOutcome(q, warehousesWithDistance)
       IN IF outcome # "ok"
          THEN [status |-> "error", message |-> outcome, quantity |-> q,
                warehouses |-> warehousesWithDistance]
          ELSE [status |-> "quote", quantity |-> q,
                warehouses |-> warehousesWithDistance,
                basePrice |-> costs.basePrice,
                totalPrice |-> costs.totalPrice,
                discount |-> costs.discount,
                shippingCost |-> costs.shippingCost,
                shippingCostLo |-> costs.shippingCostLo,
                items |-> res.allocations]
  /\ UNCHANGED <<constVars, exists, orderVars, stock, lockOwner, orders, items, pc, qty, dest, cand, rows,
                 alloc, idx, inst, txOrder, txItems, err, written, adminVars, faults,
                 shortfall, quote, quoteStock>>

\* ---- OrderController.createOrder: the response ---------------------------------
\* (mutant) a failed create is answered as a server error
ResponseStatus_ServerError(thrown) == IF thrown THEN 500 ELSE 201

\* res.status(201) after createOrder returned, res.status(400) in the catch
ResponseStatus(thrown) == IF thrown THEN 400 ELSE 201

\* error.message up to its first variable part; a failure of the store
\* carries the message of the store
ErrorMessage(e) ==
  CASE e = "InsufficientStock" -> "Cannot fulfill order"
    [] e = "ShippingCostExceeded" ->
         "Order is invalid: shipping cost exceeds 15% of order amount"
    [] e = "StockChanged" -> "Insufficient stock in warehouse"
    [] e = "NotEnoughStock" -> "Not enough stock available in warehouse"
    [] OTHER -> e

\* the response of the controller to the create request r once it has ended
Response(r) ==
  IF pc[r] = "committed" THEN [status |-> ResponseStatus(FALSE)]
  ELSE [status |-> ResponseStatus(TRUE), message |-> ErrorMessage(err[r])]

\* sum of the quantities of a set of order_items rows
RECURSIVE SumQuantity(_)
SumQuantity(S) ==
  IF S = {} THEN 0
  ELSE LET it == CHOOSE x \in S : TRUE IN it.quantity + SumQuantity(S \ {it})

\* ---- updateOrderStatus, deleteOrder ------------------------------------------
OrderStatuses == {"PENDING", "PROCESSING", "COMPLETED", "CANCELLED"}

\* the statuses that status update requests ask for
RequestedStatuses == {"PENDING", "COMPLETED"}

\* (mutant) an order that is completed or cancelled keeps its status
UpdateOrderStatus_FinalStays(r, status) ==
  /\ orders[r] # NoOrder
  /\ orders[r].status \notin {"COMPLETED", "CANCELLED"}
  /\ orders' = [orders EXCEPT ![r].status = status]
  /\ statusFrom' = [statusFrom EXCEPT ![r] = orders[r].status]
  /\ UNCHANGED <<constVars, exists, notFound, verifyVars, shortfall, stock, lockOwner, items, pc, qty, dest,
                 cand, rows, alloc, idx, inst, txOrder, txItems, err, written, adminVars,
                 faults>>

\* Order.findByPk(id) finds the order; order.updateStatus(status) assigns the
\* status and saves
UpdateOrderStatus(r, status) ==
  /\ orders[r] # NoOrder
  /\ orders' = [orders EXCEPT ![r].status = status]
  /\ statusFrom' = [statusFrom EXCEPT ![r] = orders[r].status]
  /\ UNCHANGED <<constVars, exists, notFound, verifyVars, shortfall, stock, lockOwner, items, pc, qty, dest,
                 cand, rows, alloc, idx, inst, txOrder, txItems, err, written, adminVars,
                 faults>>

\* the operations of the controller that name an order by its id
OrderOps == {"getOrderById", "updateOrderStatus", "deleteOrder"}

\* status of the controller's response: 404 when the service returned null
\* (false for deleteOrder), else 200, or 204 after a deletion
OrderOpStatus(op, found) ==
  IF ~found THEN 404 ELSE IF op = "deleteOrder" THEN 204 ELSE 200

\* (mutant) a status update for an unknown id inserts an order
OrderNotFound_Upserts(op, r) ==
  /\ orders[r] = NoOrder
  /\ notFound' = [op |-> op, id |-> r, status |-> OrderOpStatus(op, FALSE)]
  /\ orders' = IF op = "updateOrderStatus"
               THEN [orders EXCEPT ![r] = [status |-> "PENDING"]]
               ELSE orders
  /\ UNCHANGED <<constVars, exists, verifyVars, statusFrom, shortfall, stock, lockOwner, items,
                 pc, qty, dest, cand, rows, alloc, idx, inst, txOrder, txItems, err, written,
                 adminVars, faults>>

\* Order.findByPk(id) finds no committed order (Order.destroy deletes no
\* row): the service returns null (false) and the controller answers 404
OrderNotFound(op, r) ==
  /\ orders[r] = NoOrder
  /\ notFound' = [op |-> op, id |-> r, status |-> OrderOpStatus(op, FALSE)]
  /\ UNCHANGED <<constVars, exists, verifyVars, statusFrom, shortfall, stock, lockOwner, orders,
                 items, pc, qty, dest, cand, rows, alloc, idx, inst, txOrder, txItems, err,
                 written, adminVars, faults>>

\* (mutant) the foreign key does not cascade
Cascade_None(r) == items

\* order_items left by ON DELETE CASCADE when the order r is deleted
Cascade(r) == {it \in items : it.orderId # r}

\* (mutant) deleting an order returns its units to the warehouses
DeleteOrder_Restocks(r) ==
  /\ orders[r] # NoOrder
  /\ orders' = [orders EXCEPT ![r] = NoOrder]
  /\ items' = Cascade(r)
  /\ stock' = [w \in WarehouseIds |->
                 stock[w] + SumQuantity({it \in items : it.orderId = r /\ it.warehouseId = w})]
  /\ UNCHANGED <<constVars, exists, orderVars, verifyVars, shortfall, lockOwner, pc, qty, dest,
                 cand, rows, alloc, idx, inst, txOrder, txItems, err, written, adminVars,
                 faults>>

\* Order.destroy({ where: { id } }) of an order that exists
DeleteOrder(r) ==
  /\ orders[r] # NoOrder
  /\ orders' = [orders EXCEPT ![r] = NoOrder]
  /\ items' = Cascade(r)
  /\ UNCHANGED <<constVars, exists, orderVars, verifyVars, shortfall, stock, lockOwner, pc, qty, dest,
                 cand, rows, alloc, idx, inst, txOrder, txItems, err, written, adminVars,
                 faults>>

\* steps of createOrder and of the store on its behalf
CreateStep ==
  \/ \E r \in Req, q \in Quantities, d \in Destinations : Begin(r, q, d)
  \/ \E r \in Req : LockRow(r)
  \/ \E r \in Req : VerifyAndInsertOrder(r)
  \/ \E r \in Req : ItemStep(r)
  \/ \E r \in Req : SaveLands(r)
  \/ \E r \in Req : LockWaitTimeout(r)
  \/ \E r \in Req : DeadlockAbort(r)
  \/ \E r \in Req : Commit(r)

\* failures of the store's INSERT statements
FaultStep ==
  \/ \E r \in Req : InsertOrderFails(r)
  \/ \E r \in Req : InsertItemFails(r)

AdminStep ==
  \/ \E w \in WarehouseIds, v \in 0..MaxStock : AdminRead(w, v)
  \/ AdminSave

Next == CreateStep \/ FaultStep

Spec == Init /\ [][Next]_vars

\* Every step of an open attempt that the runtime and the store take by
\* themselves is eventually taken.  No fairness for the arrival of requests,
\* for the failures of INSERTs, nor for lock wait timeouts: the service
\* configures none (src/src/config/database.ts).
Fairness ==
  \A r \in Req :
    /\ WF_vars(LockRow(r))
    /\ WF_vars(VerifyAndInsertOrder(r))
    /\ WF_vars(ItemStep(r))
    /\ WF_vars(SaveLands(r))
    /\ WF_vars(DeadlockAbort(r))
    /\ WF_vars(Commit(r))

FairSpec == Spec /\ Fairness

VerifyStep == \E q \in Quantities, d \in VerifyDestinations : Verify(q, d)

\* create requests running next to verify requests
NextVerify == CreateStep \/ VerifyStep

SpecVerify == Init /\ [][NextVerify]_vars

\* verify requests running next to administrative stock overwrites
NextQuote == VerifyStep \/ AdminStep

SpecQuote == Init /\ [][NextQuote]_vars

OrderStep ==
  \/ \E r \in Req, status \in RequestedStatuses : UpdateOrderStatus(r, status)
  \/ \E r \in Req : DeleteOrder(r)

\* create requests running next to status updates and deletions of orders
NextOrders == CreateStep \/ OrderStep

SpecOrders == Init /\ [][NextOrders]_vars

NotFoundStep == \E op \in OrderOps, r \in Req : OrderNotFound(op, r)

\* create requests running next to requests for orders that do not exist
NextLookup == CreateStep \/ NotFoundStep

SpecLookup == Init /\ [][NextLookup]_vars

NumberStep == \E r \in Req, r2 \in Req : InsertOrderNumberRepeats(r, r2)

\* create requests, some of them 1000 seconds after an earlier one
NextNumbers == CreateStep \/ NumberStep

SpecNumbers == Init /\ [][NextNumbers]_vars

WarehouseStep == \E w \in WarehouseIds : DeleteWarehouse(w)

\* create requests running next to deletions of warehouses
NextWarehouses == CreateStep \/ WarehouseStep

SpecWarehouses == Init /\ [][NextWarehouses]_vars

PricingStep ==
  \E q \in PricedQuantities, warehousesWithDistance \in PricedRows :
    Price(q, warehousesWithDistance)

\* verifyOrder applied to rows with stock for large orders
SpecPricing == Init /\ [][PricingStep]_vars

\* create requests running next to administrative stock overwrites
NextAdmin == CreateStep \/ AdminStep

SpecAdmin == Init /\ [][NextAdmin]_vars

\* ---- properties -------------------------------------------------------------
ItemsOf(r) == {it \in items : it.orderId = r}
\* units the committed order items drew from warehouse w
CommittedDraw(w) == SumQuantity({it \in items : it.warehouseId = w})
Ended(r) == pc[r] \in {"committed", "failed"}
AllEnded == \A r \in Req : Ended(r)

\* C1: for every warehouse, the quantities drawn from it by the create
\* requests that committed sum to at most its initial stock.
C1_NoOversell == \A w \in WarehouseIds : CommittedDraw(w) <= initStock[w]

\* two requests went for the same warehouse: one committed and emptied it, the
\* other was turned away for lack of stock
C1_Witness ==
  \E w \in WarehouseIds, r1, r2 \in Req :
    /\ initStock[w] > 0 /\ CommittedDraw(w) = initStock[w]
    /\ pc[r1] = "committed" /\ (\E it \in ItemsOf(r1) : it.warehouseId = w)
    /\ pc[r2] = "failed" /\ err[r2] = "InsufficientStock"

\* C2: in every reachable state the stock of every warehouse is an integer >= 0.
C2_StockNonNegative == \A w \in WarehouseIds : stock[w] \in Nat

\* a committed create has drawn a warehouse down to exactly 0
C2_Witness ==
  \E w \in WarehouseIds, r \in Req :
    /\ stock[w] = 0 /\ initStock[w] > 0
    /\ pc[r] = "committed" /\ written[r][w] > 0

\* C3: once a create attempt has failed, no Order row and no OrderItem row
\* written by that attempt exists.
C3_FailedLeavesNoRows ==
  \A r \in Req : pc[r] = "failed" => orders[r] = NoOrder /\ ItemsOf(r) = {}

\* an attempt failed on an INSERT after it had inserted its Order row, an
\* OrderItem row and saved a stock decrement
C3_Witness ==
  \E r \in Req, w \in WarehouseIds :
    pc[r] = "failed" /\ err[r] = "InsertFailed" /\ written[r][w] > 0

\* the lines of the allocation of r, as order item rows
AllocationItems(r) ==
  {[orderId |-> r, line |-> i, warehouseId |-> alloc[r][i].warehouseId,
    quantity |-> alloc[r][i].quantity] : i \in 1..Len(alloc[r])}

C5_ExactPacking ==
  \A w \in WarehouseIds, q \in Quantities :
    ( /\ AllEnded
      /\ faults = 0 /\ adminCount = 0
      /\ \A w2 \in WarehouseIds \ {w} : initStock[w2] = 0
      /\ \A r \in Req : qty[r] = q /\ err[r] # "ShippingCostExceeded"
      /\ NumReq * q > initStock[w] )
    => /\ Cardinality({r \in Req : pc[r] = "committed"}) = initStock[w] \div q
       /\ stock[w] = initStock[w] - q * (initStock[w] \div q)

RECURSIVE SumLineQuantity(_, _)
SumLineQuantity(allocations, i) ==
  IF i > Len(allocations) THEN 0
  ELSE allocations[i].quantity + SumLineQuantity(allocations, i + 1)

TotalStock(st) == st[1] + st[2]

\* the request r has an allocation that passed verifyOrder
Verified(r) == pc[r] \in {"item", "save", "commit", "committed"}

\* shipping cost (both limbs) of drawing a[w] units from each warehouse w
PlanShippingCost(d, a) ==
  LineShippingCost(a[1], Distance(d, 1)) + LineShippingCost(a[2], Distance(d, 2))
PlanShippingCostLo(d, a) ==
  LineShippingCost(a[1], DistanceLo(d, 1)) + LineShippingCost(a[2], DistanceLo(d, 2))

\* the ways to supply q units without exceeding the stock st of any warehouse
FeasiblePlans(q, st) ==
  {a \in [WarehouseIds -> 0..q] : a[1] + a[2] = q /\ \A w \in WarehouseIds : a[w] <= st[w]}

\* C11: a create request whose allocation costs more to ship than 15% of the
\* discounted total is rejected with ShippingCostExceeded before any Order or
\* OrderItem row is inserted and before any stock is decremented; no request
\* with such an allocation gets past verification.
C11_CapRejectsBeforePersistence ==
  /\ [](\A r \in Req :
          /\ Verified(r) =>
               LET costs == calculateOrderCosts(qty[r], alloc[r])
               IN /\ costs.shippingCost <= costs.totalPrice * 150
                  /\ costs.shippingCost = costs.totalPrice * 150
                       => costs.shippingCostLo = 0
          /\ err[r] = "ShippingCostExceeded" =>
               /\ pc[r] = "failed" /\ orders[r] = NoOrder /\ ItemsOf(r) = {}
               /\ \A w \in WarehouseIds : written[r][w] = 0)
  /\ [][\A r \in Req :
          (err[r] # "ShippingCostExceeded" /\ err'[r] = "ShippingCostExceeded")
          => txOrder[r] = NoOrder /\ txItems[r] = <<>> /\ stock' = stock]_vars

\* a request for one unit that only the warehouse 7000 km away could supply
\* was rejected for its shipping cost
C11_Witness ==
  \E r \in Req : pc[r] = "failed" /\ err[r] = "ShippingCostExceeded" /\ qty[r] = 1

\* C12: a verify request changes no state: no stock, no Order or OrderItem
\* row (committed or pending), no row lock.
C12_VerifyChangesNothing ==
  [][(quote' # quote \/ quoteStock' # quoteStock)
     => UNCHANGED <<stock, lockOwner, orders, items, txOrder, txItems>>]_vars

\* a verify request has returned a quote computed from stock an
\* administrative overwrite had changed
C12_Witness == quote.status = "quote" /\ adminCount > 0 /\ quoteStock # initStock

\* C13: when an allocation exists but its shipping cost exceeds the cap,
\* Verify returns a Quote whose validity flag is false, not an error.
C13_VerifyFlagsCapExceeded ==
  /\ ~(quote.status = "error" /\ quote.message = "ShippingCostExceeded")
  /\ quote.status = "quote" =>
       (quote.isValid <=>
          /\ quote.shippingCost <= quote.totalPrice * 150
          /\ quote.shippingCost = quote.totalPrice * 150 => quote.shippingCostLo = 0)

C15_VerifyIsRepeatable ==
  [][( /\ quote.status # "none" /\ quote'.status # "none"
       /\ quote'.quantity = quote.quantity
       /\ quote'.destination = quote.destination
       /\ quoteStock' = quoteStock /\ stock = quoteStock )
     => quote' = quote]_vars

\* C16: the lines of a returned allocation sum exactly to the requested
\* quantity, and when the stock does not cover the request an error is
\* returned, never an allocation.
C16_AllocationSumsToRequest ==
  /\ quote.status = "quote" => SumLineQuantity(quote.items, 1) = quote.quantity
  /\ (quote.status # "none" /\ TotalStock(quoteStock) < quote.quantity)
       => quote.status = "error" /\ quote.message = "InsufficientStock"

\* an allocation over both warehouses was returned, and (other state) a
\* request the stock could not cover was refused
C16_Witness ==
  \/ quote.status = "quote" /\ Len(quote.items) = 2
  \/ quote.status = "error" /\ TotalStock(quoteStock) > 0
       /\ TotalStock(quoteStock) < quote.quantity

\* C17: every allocation line has a quantity > 0 and at most the stock its
\* warehouse held when the allocation was computed.
C17_LineWithinStock ==
  quote.status = "quote" =>
    \A i \in 1..Len(quote.items) :
      /\ quote.items[i].quantity > 0
      /\ quote.items[i].quantity <= quoteStock[quote.items[i].warehouseId]

\* a line took less than the request because its warehouse held less
C17_Witness ==
  /\ quote.status = "quote"
  /\ \E i \in 1..Len(quote.items) :
       /\ quote.items[i].quantity = quoteStock[quote.items[i].warehouseId]
       /\ quote.items[i].quantity < quote.quantity

\* C18: the lines of a returned allocation are in non-decreasing order of
\* distance from the destination.
C18_LinesByDistance ==
  quote.status = "quote" =>
    \A i, j \in 1..Len(quote.items) :
      i < j =>
        \/ quote.items[i].distance < quote.items[j].distance
        \/ /\ quote.items[i].distance = quote.items[j].distance
           /\ quote.items[i].distanceLo <= quote.items[j].distanceLo

\* an allocation whose nearest warehouse is not the first warehouse
C18_Witness ==
  /\ quote.status = "quote" /\ Len(quote.items) = 2
  /\ quote.items[1].warehouseId = 2
  /\ quote.items[1].distance < quote.items[2].distance

\* C19: when the requested quantity exceeds the total stock, Create fails
\* with InsufficientStock carrying exactly (requested - total stock) units
\* (stated for a create that ran alone on the initial stock), and no
\* InsufficientStock error names more units than were requested.
C19_ExactShortfall ==
  /\ ( /\ Ended(1) /\ \A r \in Req \ {1} : pc[r] = "idle"
       /\ qty[1] > TotalStock(initStock) )
     => /\ pc[1] = "failed" /\ err[1] = "InsufficientStock"
        /\ shortfall[1] = qty[1] - TotalStock(initStock)
        /\ orders[1] = NoOrder
  /\ \A r \in Req :
       err[r] = "InsufficientStock" => shortfall[r] > 0 /\ shortfall[r] <= qty[r]

\* a request was refused although some of it could have been supplied
C19_Witness ==
  /\ pc[1] = "failed" /\ err[1] = "InsufficientStock"
  /\ \A r \in Req \ {1} : pc[r] = "idle"
  /\ TotalStock(initStock) > 0 /\ shortfall[1] < qty[1]

\* C20: the returned allocation has the minimum total shipping cost among
\* all ways to supply the requested quantity within the warehouses' stock.
C20_MinimalShippingCost ==
  quote.status = "quote" =>
    \A a \in FeasiblePlans(quote.quantity, quoteStock) :
      \/ quote.shippingCost < PlanShippingCost(quote.destination, a)
      \/ /\ quote.shippingCost = PlanShippingCost(quote.destination, a)
         /\ quote.shippingCostLo <= PlanShippingCostLo(quote.destination, a)

\* an allocation was returned where a dearer way to supply the request exists
C20_Witness ==
  /\ quote.status = "quote"
  /\ \E a \in FeasiblePlans(quote.quantity, quoteStock) :
       quote.shippingCost < PlanShippingCost(quote.destination, a)


\* C21: warehouses at equal distance are taken in the order of their ids, so
\* the allocation of a Quote is the one function of quantity, destination and
\* stock that this order gives.
C21_TiesByWarehouseIdentity ==
  quote.status = "quote"
  => LET d == quote.destination
         byId == CHOOSE c \in SortedCandidates(d, quoteStock) :
                   \A i, j \in 1..Len(c) :
                     (i < j /\ DistanceLeq(d, c[j], c[i])) => c[i] < c[j]
     IN quote.items =
          findOptimalWarehouses(quote.quantity,
                                QueryRows(d, byId, quoteStock)).allocations

\* C22: an order is rejected for its shipping cost exactly when the shipping
\* cost is strictly greater than 15% of base price minus discount; a shipping
\* cost equal to that 15% is accepted.
C22_RejectedExactlyAboveCap ==
  pricing.status # "none"
  => LET q == pricing.quantity
         res == findOptimalWarehouses(q, pricing.warehouses)
         costs == calculateOrderCosts(q, res.allocations)
         cap == (costs.basePrice - costs.discount) * 150
         above == \/ costs.shippingCost > cap
                  \/ costs.shippingCost = cap /\ costs.shippingCostLo > 0
     IN res.remainingQuantity = 0 =>
          /\ (pricing.status = "error" /\ pricing.message = "ShippingCostExceeded")
               <=> above
          /\ pricing.status = "quote" <=> ~above

\* 73 units, one from the destination and 72 from 5625 km away, cost exactly
\* 15% of the discounted total to ship and were quoted
C22_Witness ==
  /\ pricing.status = "quote" /\ pricing.discount > 0
  /\ pricing.shippingCost = pricing.totalPrice * 150 /\ pricing.shippingCostLo = 0

\* C23: the discount is 0% of the base price below 25 units, 5% from 25 to
\* 49, 10% from 50 to 99, 15% from 100 to 249 and 20% from 250 on.
C23_DiscountTiers ==
  pricing.status = "quote"
  => LET q == pricing.quantity
         rate == IF q < 25 THEN 0
                 ELSE IF q <= 49 THEN 5
                 ELSE IF q <= 99 THEN 10
                 ELSE IF q <= 249 THEN 15
                 ELSE 20
     IN pricing.discount * 100 = pricing.basePrice * rate

\* a quote for exactly 250 units carries a discount
C23_Witness ==
  pricing.status = "quote" /\ pricing.quantity = 250 /\ pricing.discount > 0

\* C24: the total price is the base price (150 dollars a unit) minus the
\* discount, whatever the shipping cost.
C24_TotalExcludesShipping ==
  pricing.status = "quote"
  => /\ pricing.basePrice = 15000 * pricing.quantity
     /\ pricing.totalPrice = pricing.basePrice - pricing.discount

\* a quote with a discount and a shipping cost
C24_Witness ==
  pricing.status = "quote" /\ pricing.discount > 0 /\ pricing.shippingCost > 0

\* C25: a create request that ran alone (no other create began, no INSERT
\* failed) on stock that covers it within the shipping cap has succeeded when
\* it ended; when it asked for the whole stock, the stock it leaves is 0.
C25_LoneCreateSucceeds ==
  ( /\ Ended(1) /\ faults = 0
    /\ \A r \in Req : r # 1 => pc[r] = "idle"
    /\ \E c \in SortedCandidates(dest[1], initStock) :
         VerifyOutcome(qty[1], QueryRows(dest[1], c, initStock)) = "ok" )
  => /\ pc[1] = "committed"
     /\ qty[1] = TotalStock(initStock) => TotalStock(stock) = 0

C27_StoreFailureIsServerError ==
  \A r \in Req :
    (pc[r] = "failed" /\ err[r] \in {"LockTimeout", "Deadlock", "InsertFailed"})
    => Response(r).status >= 500

\* C28: deleting an order changes the stock of no warehouse.
C28_DeleteKeepsStock ==
  [][(\E r \in Req : orders[r] # NoOrder /\ orders'[r] = NoOrder)
     => stock' = stock]_vars

\* an order that drew units has been deleted and the units are still gone
C28_Witness ==
  \E r \in Req :
    /\ pc[r] = "committed" /\ orders[r] = NoOrder
    /\ \E w \in WarehouseIds : written[r][w] > 0 /\ stock[w] < initStock[w]

C30_StatusOverwrite ==
  /\ [](\A r \in Req, status \in OrderStatuses :
          orders[r] # NoOrder => ENABLED UpdateOrderStatus(r, status))
  /\ [][\A r \in Req, status \in OrderStatuses :
          UpdateOrderStatus(r, status) => orders'[r].status = status]_vars

\* a completed order has been set back to PENDING
C30_Witness ==
  \E r \in Req : orders[r] # NoOrder /\ statusFrom[r] = "COMPLETED"
                 /\ orders[r].status = "PENDING"

\* C31: a lookup, a status update or a deletion that names an order id no
\* committed order has is answered "not found" (404) and changes no stock, no
\* row and no lock.
C31_UnknownIdIsNotFound ==
  /\ [](notFound.op # "none" => notFound.status = 404)
  /\ [][notFound' # notFound
        => /\ orders[notFound'.id] = NoOrder
           /\ UNCHANGED <<stock, lockOwner, orders, items, txOrder, txItems, statusFrom>>]_vars

\* a status update named the order of a create that has inserted it and not
\* committed yet, while another order exists
C31_Witness ==
  /\ notFound.op = "updateOrderStatus"
  /\ txOrder[notFound.id] # NoOrder /\ orders[notFound.id] = NoOrder
  /\ \E r \in Req : orders[r] # NoOrder

\* C32: the order a successful create returns (the row it inserted, as it
\* commits) has status PENDING, whatever status updates other orders get
\* meanwhile.
C32_CreatedOrderIsPending ==
  /\ [](\A r \in Req : txOrder[r] # NoOrder => txOrder[r].status = "PENDING")
  /\ [][\A r \in Req :
          (pc[r] # "committed" /\ pc'[r] = "committed")
          => (orders'[r] # NoOrder /\ orders'[r].status = "PENDING")]_vars

\* an order has just been committed and never updated, while another order
\* has been set to COMPLETED
C32_Witness ==
  \E r1, r2 \in Req :
    /\ orders[r1] # NoOrder /\ statusFrom[r1] = "none" /\ orders[r1].status = "PENDING"
    /\ orders[r2] # NoOrder /\ orders[r2].status = "COMPLETED"

C34_CanonicalLockOrder ==
  \A r1, r2 \in Req :
    \A i1, j1 \in 1..Len(cand[r1]), i2, j2 \in 1..Len(cand[r2]) :
      ( /\ cand[r1][i1] = cand[r2][i2] /\ cand[r1][j1] = cand[r2][j2]
        /\ i1 < j1 )
      => i2 < j2

\* C35: a create attempt whose next allocation line names a warehouse that
\* no longer exists goes nowhere but to failure, with its order and items
\* rolled back; an attempt that failed for a missing warehouse has left no
\* order and no item.
C35_MissingWarehouseAborts ==
  /\ [][\A r \in Req :
          ( /\ pc[r] = "item" /\ ~exists[alloc[r][idx[r]].warehouseId]
            /\ (pc'[r] # pc[r] \/ idx'[r] # idx[r] \/ txItems'[r] # txItems[r]) )
          => /\ pc'[r] = "failed"
             /\ txOrder'[r] = NoOrder /\ txItems'[r] = <<>>
             /\ orders'[r] = NoOrder]_vars
  /\ [](\A r \in Req :
          err[r] = "WarehouseNotFound"
          => pc[r] = "failed" /\ orders[r] = NoOrder /\ ItemsOf(r) = {})

\* a create attempt failed because the warehouse of its allocation had been
\* deleted after its query returned the row
C35_Witness ==
  \E r \in Req : /\ pc[r] = "failed" /\ err[r] = "WarehouseNotFound"
                 /\ \E w \in WarehouseIds : ~exists[w] /\ initStock[w] > 0

C37_OrderNumbersDistinct ==
  \A r1 \in Req, r2 \in Req :
    (r1 # r2 /\ orders[r1] # NoOrder /\ orders[r2] # NoOrder)
    => orders[r1].orderNumber # orders[r2].orderNumber

\* one order is committed and a create that drew the same number 1000 seconds
\* later has been rejected by the unique index
C37_Witness ==
  \E r1 \in Req, r2 \in Req :
    /\ r1 # r2 /\ orders[r1] # NoOrder
    /\ pc[r2] = "failed" /\ err[r2] = "UniqueViolation"

\* C38: when an allocation has a line for a warehouse, every warehouse that
\* was strictly nearer to the destination and held stock when the allocation
\* was computed has a line too, and that line takes its whole stock.
C38_NearerDrawnCompletely ==
  quote.status = "quote" =>
    \A j \in 1..Len(quote.items) :
      \A w \in WarehouseIds :
        ( /\ quoteStock[w] > 0
          /\ ~DistanceLeq(quote.destination, quote.items[j].warehouseId, w) )
        => \E i \in 1..Len(quote.items) :
             /\ quote.items[i].warehouseId = w
             /\ quote.items[i].quantity = quoteStock[w]

\* an allocation emptied the nearer warehouse and took a part of the stock of
\* the farther one
C38_Witness ==
  /\ quote.status = "quote" /\ Len(quote.items) = 2
  /\ quote.items[1].quantity = quoteStock[quote.items[1].warehouseId]
  /\ quote.items[1].distance < quote.items[2].distance
  /\ quote.items[2].quantity < quoteStock[quote.items[2].warehouseId]
====
